---- MODULE Spec2Model ----
(***************************************************************************)
(* A model of the regrouter package: the route list and Handlers bundle of *)
(* a RegRouter, registration (Add, Static), the dispatch closure returned  *)
(* by Handler(), and the Params store.                                     *)
(*                                                                         *)
(* Go strings are sequences of one-character strings, so that ToUpper,     *)
(* EqualFold, Join and the regular-expression matcher work on characters.  *)
(* Parameter keys (group names, decimal indexes) are TLA+ strings.         *)
(***************************************************************************)
EXTENDS Integers, Sequences, FiniteSets, TLC

VARIABLES Routes, Handlers, op, log, fault, store, hist, ret,
          calls, heap, rrs, maps, inreq, seen

vars == <<Routes, Handlers, op, log, fault, store, hist, ret,
          calls, heap, rrs, maps, inreq, seen>>

(***************************************************************************)
(* Bounds of the model.                                                    *)
(***************************************************************************)
MaxRoutes == 2
MaxSets == 3
MaxDepth == 2

(***************************************************************************)
(* Status codes of net/http used by the package.                           *)
(***************************************************************************)
StatusNotFound == 404
StatusMethodNotAllowed == 405
StatusInternalServerError == 500
StatusNoContent == 204

(***************************************************************************)
(* strings: ToUpper, EqualFold, Join, Sprintf("%d").                       *)
(***************************************************************************)
LowerCase == <<"d", "e", "g", "l", "o", "p", "s", "t">>
UpperCase == <<"D", "E", "G", "L", "O", "P", "S", "T">>

ToUpperChar(c) ==
    IF \E i \in 1..Len(LowerCase) : LowerCase[i] = c
    THEN UpperCase[CHOOSE i \in 1..Len(LowerCase) : LowerCase[i] = c]
    ELSE c

ToUpper(s) == [i \in 1..Len(s) |-> ToUpperChar(s[i])]

\* A comparison that does not fold case.
EqualExact(s, t) == s = t

EqualFold(s, t) ==
    /\ Len(s) = Len(t)
    /\ \A i \in 1..Len(s) : ToUpperChar(s[i]) = ToUpperChar(t[i])

RECURSIVE Join(_, _)
Join(elems, sep) ==
    IF Len(elems) = 0 THEN <<>>
    ELSE IF Len(elems) = 1 THEN elems[1]
    ELSE elems[1] \o sep \o Join(Tail(elems), sep)

CommaSpace == <<",", " ">>

Digit == <<"0", "1", "2", "3", "4", "5", "6", "7", "8", "9">>

RECURSIVE Itoa(_)
Itoa(i) == IF i < 10 THEN Digit[i + 1] ELSE Itoa(i \div 10) \o Digit[(i % 10) + 1]

(***************************************************************************)
(* regexp.  A pattern source is a sequence of items:                       *)
(*   lit  c            the character c                                     *)
(*   grp  name cls many opt                                                *)
(*                     a capture group over the character class cls:       *)
(*                     (cls) or (cls+), named (?P<name>...) when name is   *)
(*                     not "", followed by ? when opt                      *)
(*   bol, eol          ^ and $                                             *)
(*   unclosed          a "(" that is never closed (a syntax error)         *)
(***************************************************************************)
Lit(c) == [t |-> "lit", c |-> c, name |-> "", cls |-> {}, many |-> FALSE, opt |-> FALSE]
Grp(name, cls, many, opt) ==
    [t |-> "grp", c |-> "", name |-> name, cls |-> cls, many |-> many, opt |-> opt]
Bol == [t |-> "bol", c |-> "", name |-> "", cls |-> {}, many |-> FALSE, opt |-> FALSE]
Eol == [t |-> "eol", c |-> "", name |-> "", cls |-> {}, many |-> FALSE, opt |-> FALSE]
Unclosed == [t |-> "unclosed", c |-> "", name |-> "", cls |-> {}, many |-> FALSE, opt |-> FALSE]

Lits(s) == [i \in 1..Len(s) |-> Lit(s[i])]

SelectGroups(src) == SelectSeq(src, LAMBDA it : it.t = "grp")

\* regexp.MustCompile: the compiled expression, or a panic on a syntax error.
CompileOK(src) == \A i \in 1..Len(src) : src[i].t # "unclosed"

Compile(src) == [prog |-> src]

\* (*Regexp).SubexpNames: names[i] is the name of group i, "" for group 0
\* and for an unnamed group.
SubexpNames(re) ==
    LET gs == SelectGroups(re.prog)
    IN <<"">> \o [i \in 1..Len(gs) |-> gs[i].name]

NumSubexp(re) == Len(SelectGroups(re.prog))

SubStr(s, from, to) == SubSeq(s, from + 1, to)

RECURSIVE RunLen(_, _, _)
RunLen(s, pos, cls) ==
    IF pos < Len(s) /\ s[pos + 1] \in cls THEN 1 + RunLen(s, pos + 1, cls) ELSE 0

NoMatch == [ok |-> FALSE, caps |-> <<>>, end |-> 0]

\* Backtracking match of prog[k..] at position pos (0-based) of s; g is the
\* number of groups opened so far, caps[g+1] the text of group g.  A group
\* prefers the longest run, then shorter ones, then (when optional) not to
\* participate, in which case its text stays empty.
RECURSIVE MatchHere(_, _, _, _, _, _)
RECURSIVE TryGroup(_, _, _, _, _, _, _)
MatchHere(prog, k, s, pos, caps, g) ==
    IF k > Len(prog) THEN [ok |-> TRUE, caps |-> caps, end |-> pos]
    ELSE LET it == prog[k]
         IN CASE it.t = "lit" ->
                    IF pos < Len(s) /\ s[pos + 1] = it.c
                    THEN MatchHere(prog, k + 1, s, pos + 1, caps, g)
                    ELSE NoMatch
              [] it.t = "bol" ->
                    IF pos = 0 THEN MatchHere(prog, k + 1, s, pos, caps, g) ELSE NoMatch
              [] it.t = "eol" ->
                    IF pos = Len(s) THEN MatchHere(prog, k + 1, s, pos, caps, g) ELSE NoMatch
              [] it.t = "grp" ->
                    LET run == RunLen(s, pos, it.cls)
                        most == IF it.many THEN run ELSE IF run > 0 THEN 1 ELSE 0
                    IN TryGroup(prog, k, s, pos, caps, g, most)
              [] OTHER -> NoMatch

TryGroup(prog, k, s, pos, caps, g, n) ==
    IF n = 0
    THEN IF prog[k].opt THEN MatchHere(prog, k + 1, s, pos, caps, g + 1) ELSE NoMatch
    ELSE LET r == MatchHere(prog, k + 1, s, pos + n,
                            [caps EXCEPT ![g + 2] = SubStr(s, pos, pos + n)], g + 1)
         IN IF r.ok THEN r ELSE TryGroup(prog, k, s, pos, caps, g, n - 1)

RECURSIVE FindFrom(_, _, _)
FindFrom(re, s, start) ==
    IF start > Len(s) THEN <<>>
    ELSE LET r == MatchHere(re.prog, 1, s, start,
                            [i \in 1..(NumSubexp(re) + 1) |-> <<>>], 0)
         IN IF r.ok THEN [r.caps EXCEPT ![1] = SubStr(s, start, r.end)]
            ELSE FindFrom(re, s, start + 1)

\* (*Regexp).FindStringSubmatch: the leftmost match and its groups, or nil.
FindStringSubmatch(re, s) == FindFrom(re, s, 0)

(***************************************************************************)
(* Params (params.go).  A store is a function from keys to values.         *)
(***************************************************************************)
NewParams == [k \in {} |-> <<>>]

NoError == <<>>

\* Set that keeps the value of a key already present.
SetKeepFirst(p, key, value) ==
    LET q == [k \in DOMAIN p \cup {key} |-> IF k \in DOMAIN p THEN p[k] ELSE value]
    IN [p |-> q, ok |-> key \in DOMAIN q]

Set(p, key, value) ==
    LET q == [k \in DOMAIN p \cup {key} |-> IF k = key THEN value ELSE p[k]]
    IN [p |-> q, ok |-> key \in DOMAIN q]

GetE(p, key) ==
    IF key \in DOMAIN p
    THEN [res |-> p[key], err |-> NoError]
    ELSE [res |-> <<>>, err |-> <<"\"", key, "\"", ": no such param">>]

Get(p, key) == IF key \in DOMAIN p THEN p[key] ELSE <<>>

(***************************************************************************)
(* What a call does to the outside is recorded as a sequence of events:    *)
(*   cors     the CORS header writer is called with `methods`              *)
(*   header   a response header `key` is set to `text`                     *)
(*   status   the handler of ErrorCodes[code] is called with `data`        *)
(*   write    a response with status `code` is written                     *)
(*   handler  the handler of route number `route` is called; `params` is   *)
(*            the store attached to the request it receives                *)
(*   serve    the file server rooted at `key` is called for path `text`    *)
(***************************************************************************)
EmptyData == [k \in {} |-> <<>>]

Ev(ev, route, code, methods, params, data, key, text) ==
    [ev |-> ev, route |-> route, code |-> code, methods |-> methods,
     params |-> params, data |-> data, key |-> key, text |-> text]

EvCORS(methods) == Ev("cors", 0, 0, methods, NewParams, EmptyData, "", <<>>)
EvHeader(key, text) == Ev("header", 0, 0, <<>>, NewParams, EmptyData, key, text)
EvStatus(code, data) == Ev("status", 0, code, <<>>, NewParams, data, "", <<>>)
EvWrite(code) == Ev("write", 0, code, <<>>, NewParams, EmptyData, "", <<>>)
EvHandler(i, params) == Ev("handler", i, 0, <<>>, params, EmptyData, "", <<>>)
EvServe(dir, path) == Ev("serve", 0, 0, <<>>, NewParams, EmptyData, dir, path)

NoPanic == ""

\* The outcome of a piece of code: the events it caused and the value it
\* panicked with (NoPanic when it returned).
Ran(evs) == [log |-> evs, panic |-> NoPanic]
Panicked(evs, value) == [log |-> evs, panic |-> value]

(***************************************************************************)
(* Handlers (main.go).  CORS and every entry of ErrorCodes is "default"    *)
(* (the function New installs) or "faulting" (a caller's function that     *)
(* panics; for CORS also a nil function).  A removed entry is not in the   *)
(* domain of ErrorCodes.                                                   *)
(***************************************************************************)
DefaultCodes == {StatusNotFound, StatusMethodNotAllowed, StatusInternalServerError}

New == [Routes |-> <<>>,
        Handlers |-> [CORS |-> "default",
                      ErrorCodes |-> [c \in DefaultCodes |-> "default"]]]

\* rr.Handlers.CORS(methods, w, r).  The default writer sets
\* Access-Control-Allow-Methods to the joined methods (its other three
\* headers do not depend on the dispatch and are left out).
CallCORS(h, methods) ==
    IF h.CORS = "default"
    THEN Ran(<<EvCORS(methods),
               EvHeader("Access-Control-Allow-Methods", Join(methods, CommaSpace))>>)
    ELSE Panicked(<<EvCORS(methods)>>, "cors writer panic")

\* rr.Handlers.ErrorCodes[code](data, w, r): calling the nil function of a
\* missing entry panics; the default 405 handler sets Allow before it writes.
CallErrorCode(h, code, data) ==
    IF code \notin DOMAIN h.ErrorCodes
    THEN Panicked(<<>>, "nil function call")
    ELSE IF h.ErrorCodes[code] # "default"
    THEN Panicked(<<EvStatus(code, data)>>, "status handler panic")
    ELSE IF code = StatusMethodNotAllowed
    THEN Ran(<<EvStatus(code, data), EvHeader("Allow", data["allowed"]), EvWrite(code)>>)
    ELSE Ran(<<EvStatus(code, data), EvWrite(code)>>)

(***************************************************************************)
(* Route handlers.  A caller's handler writes a response and returns       *)
(* ("ok"), panics before writing ("panic") or writes and then panics       *)
(* ("writepanic"); "static" is the closure Static registers.               *)
(***************************************************************************)
UserHandler(kind) == [kind |-> kind, dir |-> ""]
StaticHandler(dir) == [kind |-> "static", dir |-> dir]

\* A Static closure that reads filepath with Get and serves in any case.
StaticServeLenient(dir, params) == <<EvServe(dir, <<"/">> \o Get(params, "filepath"))>>

\* The closure of Static: serve "/"+filepath, or do nothing when the store
\* has no filepath.
StaticServe(dir, params) ==
    LET f == GetE(params, "filepath")
    IN IF f.err = NoError THEN <<EvServe(dir, <<"/">> \o f.res)>> ELSE <<>>

\* route.handler(w, r.WithContext(context.WithValue(r.Context(), rr.CTX, params)))
CallHandler(route, i, params) ==
    CASE route.handler.kind = "ok" -> Ran(<<EvHandler(i, params), EvWrite(200)>>)
      [] route.handler.kind = "panic" -> Panicked(<<EvHandler(i, params)>>, "handler panic")
      [] route.handler.kind = "writepanic" ->
            Panicked(<<EvHandler(i, params), EvWrite(200)>>, "handler panic")
      [] route.handler.kind = "static" ->
            Ran(<<EvHandler(i, params)>> \o StaticServe(route.handler.dir, params))

(***************************************************************************)
(* The dispatch closure of Handler() (main.go).                            *)
(***************************************************************************)
\* A key that is the group's name even when the name is empty.
ParamKeyNameOnly(name, i) == name

\* The key of capture group i: its name, or its index when it has no name.
ParamKey(name, i) == IF Len(name) = 0 THEN Itoa(i) ELSE name

\* The loop over SubexpNames(): group i (0-based) is names[i+1], matches[i+1].
RECURSIVE BuildParams(_, _, _, _)
BuildParams(names, matches, i, params) ==
    IF i >= Len(names) THEN params
    ELSE BuildParams(names, matches, i + 1,
                     Set(params, ParamKey(names[i + 1], i), matches[i + 1]).p)

RECURSIVE RouteLoop(_, _, _, _, _, _)

\* A matched route whose handler returns without ending the loop.
RunRouteNoReturn(rr, r, i, matches, evs) ==
    LET route == rr.Routes[i]
        params == BuildParams(SubexpNames(route.regex), matches, 0, NewParams)
        h == CallHandler(route, i, params)
    IN IF h.panic # NoPanic
       THEN [log |-> evs \o h.log, panic |-> h.panic]
       ELSE RouteLoop(rr, r, i + 1, <<>>, <<>>, evs \o h.log)

\* The tail of a matched route: build the params, run the handler, return.
RunRoute(rr, r, i, matches, evs) ==
    LET route == rr.Routes[i]
        params == BuildParams(SubexpNames(route.regex), matches, 0, NewParams)
        h == CallHandler(route, i, params)
    IN [log |-> evs \o h.log, panic |-> h.panic]

\* An end of the loop that answers nothing when no route matched.
AfterLoopNo404(rr, r, methods, allowed, evs) ==
    IF Len(methods) > 0
    THEN LET c == CallCORS(rr.Handlers, methods)
         IN IF c.panic # NoPanic
            THEN Panicked(evs \o c.log, c.panic)
            ELSE Ran(evs \o c.log \o <<EvWrite(StatusNoContent)>>)
    ELSE IF Len(allowed) > 0
    THEN LET e == CallErrorCode(rr.Handlers, StatusMethodNotAllowed,
                                [k \in {"allowed"} |-> Join(allowed, CommaSpace)])
         IN [log |-> evs \o e.log, panic |-> e.panic]
    ELSE Ran(evs)

\* After the loop: CORS with 204, else 405 with the allowed methods, else 404.
AfterLoop(rr, r, methods, allowed, evs) ==
    IF Len(methods) > 0
    THEN LET c == CallCORS(rr.Handlers, methods)
         IN IF c.panic # NoPanic
            THEN Panicked(evs \o c.log, c.panic)
            ELSE Ran(evs \o c.log \o <<EvWrite(StatusNoContent)>>)
    ELSE IF Len(allowed) > 0
    THEN LET e == CallErrorCode(rr.Handlers, StatusMethodNotAllowed,
                                [k \in {"allowed"} |-> Join(allowed, CommaSpace)])
         IN [log |-> evs \o e.log, panic |-> e.panic]
    ELSE LET e == CallErrorCode(rr.Handlers, StatusNotFound, EmptyData)
         IN [log |-> evs \o e.log, panic |-> e.panic]

\* A loop that sends the CORS headers before the matching route's own
\* method has been added to methods.
RouteLoopStaleMethods(rr, r, i, methods, allowed, evs) ==
    IF i > Len(rr.Routes) THEN AfterLoop(rr, r, methods, allowed, evs)
    ELSE LET route == rr.Routes[i]
             matches == FindStringSubmatch(route.regex, r.path)
         IN IF Len(matches) > 0
            THEN IF route.CORS
                 THEN IF ~EqualFold(r.method, route.method)
                      THEN RouteLoop(rr, r, i + 1, Append(methods, route.method),
                                     Append(allowed, route.method), evs)
                      ELSE LET c == CallCORS(rr.Handlers, methods)
                           IN IF c.panic # NoPanic
                              THEN Panicked(evs \o c.log, c.panic)
                              ELSE RunRoute(rr, r, i, matches, evs \o c.log)
                 ELSE RunRoute(rr, r, i, matches, evs)
            ELSE RouteLoop(rr, r, i + 1, methods, allowed, evs)

\* The loop over rr.Routes, from route i on.
RouteLoop(rr, r, i, methods, allowed, evs) ==
    IF i > Len(rr.Routes) THEN AfterLoop(rr, r, methods, allowed, evs)
    ELSE LET route == rr.Routes[i]
             matches == FindStringSubmatch(route.regex, r.path)
         IN IF Len(matches) > 0
            THEN IF route.CORS
                 THEN LET methods2 == Append(methods, route.method)
                      IN IF ~EqualFold(r.method, route.method)
                         THEN RouteLoop(rr, r, i + 1, methods2,
                                        Append(allowed, route.method), evs)
                         ELSE LET c == CallCORS(rr.Handlers, methods2)
                              IN IF c.panic # NoPanic
                                 THEN Panicked(evs \o c.log, c.panic)
                                 ELSE RunRoute(rr, r, i, matches, evs \o c.log)
                 ELSE RunRoute(rr, r, i, matches, evs)
            ELSE RouteLoop(rr, r, i + 1, methods, allowed, evs)

\* A dispatch without the deferred recover.
RecoverNothing(rr, body) == [log |-> body.log, fault |-> body.panic]

\* The deferred function: a panic of the body is recovered and handed to
\* ErrorCodes[500]; a panic of that call leaves the dispatch.
Recover(rr, body) ==
    IF body.panic # NoPanic
    THEN LET e == CallErrorCode(rr.Handlers, StatusInternalServerError,
                                [k \in {"exception"} |-> body.panic])
         IN [log |-> body.log \o e.log, fault |-> e.panic]
    ELSE [log |-> body.log, fault |-> NoPanic]

\* One call of the closure for request r: its events and the panic that
\* leaves it (NoPanic when it returns).
ServeHTTP(rr, r) == Recover(rr, RouteLoop(rr, r, 1, <<>>, <<>>, <<>>))

(***************************************************************************)
(* Registration (main.go).                                                 *)
(***************************************************************************)
Anchored(pattern) == <<Bol>> \o pattern \o <<Eol>>

\* A route that keeps the method as it was given.
NewRouteAsGiven(method, pattern, handler, cors) ==
    [method |-> method, regex |-> Compile(Anchored(pattern)),
     handler |-> handler, CORS |-> cors]

NewRoute(method, pattern, handler, cors) ==
    [method |-> ToUpper(method), regex |-> Compile(Anchored(pattern)),
     handler |-> handler, CORS |-> cors]

NoRequest == [method |-> <<>>, path |-> <<>>]

\* An Add that appends the route before the pattern has compiled.
AddAppendsFirst(method, pattern, handler, cors) ==
    /\ Len(Routes) < MaxRoutes
    /\ Routes' = Append(Routes, NewRoute(method, pattern, handler, cors))
    /\ fault' = IF CompileOK(Anchored(pattern)) THEN NoPanic
                ELSE "regexp: Compile: error parsing regexp"
    /\ op' = [name |-> "Add", r |-> NoRequest, method |-> method, pattern |-> pattern,
              handler |-> handler, cors |-> cors]
    /\ log' = <<>>
    /\ UNCHANGED <<calls, heap, rrs, maps, inreq, seen, Handlers, store, hist, ret>>

\* rr.Add: MustCompile panics on a pattern that does not compile, before
\* anything is appended.
Add(method, pattern, handler, cors) ==
    /\ Len(Routes) < MaxRoutes
    /\ IF CompileOK(Anchored(pattern))
       THEN /\ Routes' = Append(Routes, NewRoute(method, pattern, handler, cors))
            /\ fault' = NoPanic
       ELSE /\ Routes' = Routes
            /\ fault' = "regexp: Compile: error parsing regexp"
    /\ op' = [name |-> "Add", r |-> NoRequest, method |-> method, pattern |-> pattern,
              handler |-> handler, cors |-> cors]
    /\ log' = <<>>
    /\ UNCHANGED <<calls, heap, rrs, maps, inreq, seen, Handlers, store, hist, ret>>

GET == <<"G", "E", "T">>

\* rr.Static
Static(path, pattern) == Add(GET, pattern, StaticHandler(path), FALSE)

\* The HTTP server calls the closure with request r.
Dispatch(r) ==
    /\ LET res == ServeHTTP([Routes |-> Routes, Handlers |-> Handlers], r)
       IN /\ log' = res.log
          /\ fault' = res.fault
    /\ op' = [name |-> "Dispatch", r |-> r]
    /\ UNCHANGED <<calls, heap, rrs, maps, inreq, seen, Routes, Handlers, store, hist, ret>>

(***************************************************************************)
(* Callers' changes of the Handlers bundle (its fields are exported).      *)
(***************************************************************************)
SetCORS(kind) ==
    /\ Handlers' = [Handlers EXCEPT !.CORS = kind]
    /\ op' = [name |-> "SetCORS", r |-> NoRequest]
    /\ log' = <<>>
    /\ fault' = NoPanic
    /\ UNCHANGED <<calls, heap, rrs, maps, inreq, seen, Routes, store, hist, ret>>

\* rr.Handlers.ErrorCodes[code] = f
SetErrorCode(code, kind) ==
    /\ Handlers' = [Handlers EXCEPT !.ErrorCodes =
                       [c \in DOMAIN Handlers.ErrorCodes \cup {code} |->
                           IF c = code THEN kind ELSE Handlers.ErrorCodes[c]]]
    /\ op' = [name |-> "SetErrorCode", r |-> NoRequest]
    /\ log' = <<>>
    /\ fault' = NoPanic
    /\ UNCHANGED <<calls, heap, rrs, maps, inreq, seen, Routes, store, hist, ret>>

\* delete(rr.Handlers.ErrorCodes, code)
DeleteErrorCode(code) ==
    /\ Handlers' = [Handlers EXCEPT !.ErrorCodes =
                       [c \in DOMAIN Handlers.ErrorCodes \ {code} |->
                           Handlers.ErrorCodes[c]]]
    /\ op' = [name |-> "DeleteErrorCode", r |-> NoRequest]
    /\ log' = <<>>
    /\ fault' = NoPanic
    /\ UNCHANGED <<calls, heap, rrs, maps, inreq, seen, Routes, store, hist, ret>>

(***************************************************************************)
(* Calls on one Params value (params.go); hist is the sequence of the Set  *)
(* calls made on it so far.                                                *)
(***************************************************************************)
ParamsSet(key, value) ==
    /\ Len(hist) < MaxSets
    /\ LET s == Set(store, key, value)
       IN /\ store' = s.p
          /\ ret' = [res |-> <<>>, err |-> NoError, ok |-> s.ok]
    /\ hist' = Append(hist, <<key, value>>)
    /\ op' = [name |-> "Set", key |-> key, value |-> value]
    /\ UNCHANGED <<calls, heap, rrs, maps, inreq, seen, Routes, Handlers, log, fault>>

ParamsGet(key) ==
    /\ ret' = [res |-> Get(store, key), err |-> NoError, ok |-> TRUE]
    /\ op' = [name |-> "Get", key |-> key, value |-> <<>>]
    /\ UNCHANGED <<calls, heap, rrs, maps, inreq, seen, Routes, Handlers, log, fault, store, hist>>

ParamsGetE(key) ==
    /\ LET g == GetE(store, key)
       IN ret' = [res |-> g.res, err |-> g.err, ok |-> TRUE]
    /\ op' = [name |-> "GetE", key |-> key, value |-> <<>>]
    /\ UNCHANGED <<calls, heap, rrs, maps, inreq, seen, Routes, Handlers, log, fault, store, hist>>

(***************************************************************************)
(* Concurrent dispatches (main.go).  The HTTP server runs the closure once *)
(* per request, several at a time.  calls[c] holds the local variables of  *)
(* the call in slot c and its place in the closure:                        *)
(*   idle     no request in the slot                                       *)
(*   loop     at the top of the loop, about to look at route i             *)
(*   matched  route i matches and is to be dispatched                      *)
(*   handler  the params are built and attached; the handler is running    *)
(*   after    the loop is exhausted                                        *)
(*   done     the closure has returned (or panicked with `fault`)          *)
(* A Params value holds a Go map, a reference: heap maps the address of    *)
(* every live map to its contents, and calls[c].params is the address of   *)
(* the map made at main.go:77.                                             *)
(***************************************************************************)
CallIds == {"x", "y"}

IdleCall == [pc |-> "idle", r |-> NoRequest, i |-> 0, methods |-> <<>>, allowed |-> <<>>,
             params |-> 0, log |-> <<>>, fault |-> NoPanic]

InFlight(c) == calls[c].pc # "idle"

ThisRouter == [Routes |-> Routes, Handlers |-> Handlers]

\* One map for all calls, as if params were made outside the closure.
AllocParamsShared(used) == 1

\* map[string]string{}: a new map, at an address no live map has.
AllocParams(used) ==
    CHOOSE a \in 1..(Cardinality(used) + 1) :
        a \notin used /\ \A b \in 1..(a - 1) : b \in used

\* The declarations at main.go:74-78.
Begin(c, r) ==
    /\ calls[c].pc = "idle"
    /\ LET a == AllocParams(DOMAIN heap)
       IN /\ heap' = [b \in DOMAIN heap \cup {a} |-> IF b = a THEN NewParams ELSE heap[b]]
          /\ calls' = [calls EXCEPT ![c] =
                          [pc |-> "loop", r |-> r, i |-> 1, methods |-> <<>>,
                           allowed |-> <<>>, params |-> a, log |-> <<>>, fault |-> NoPanic]]
    /\ UNCHANGED <<Routes, Handlers, op, log, fault, store, hist, ret, rrs, maps, inreq, seen>>

\* A loop that reports the method of every matching route with another
\* method, CORS-enabled or not.
IterateAnyRoute(rr, st) ==
    IF st.i > Len(rr.Routes) THEN [st EXCEPT !.pc = "after"]
    ELSE LET route == rr.Routes[st.i]
             matches == FindStringSubmatch(route.regex, st.r.path)
         IN IF Len(matches) > 0
            THEN IF ~EqualFold(st.r.method, route.method)
                 THEN [st EXCEPT !.methods = IF route.CORS THEN Append(@, route.method) ELSE @,
                                 !.allowed = Append(@, route.method),
                                 !.i = @ + 1]
                 ELSE [st EXCEPT !.methods = IF route.CORS THEN Append(@, route.method) ELSE @,
                                 !.pc = "matched"]
            ELSE [st EXCEPT !.i = @ + 1]

\* One pass of the loop body, main.go:81-91: the local variables after
\* looking at route st.i.
Iterate(rr, st) ==
    IF st.i > Len(rr.Routes) THEN [st EXCEPT !.pc = "after"]
    ELSE LET route == rr.Routes[st.i]
             matches == FindStringSubmatch(route.regex, st.r.path)
         IN IF Len(matches) > 0
            THEN IF route.CORS
                 THEN IF ~EqualFold(st.r.method, route.method)
                      THEN [st EXCEPT !.methods = Append(@, route.method),
                                      !.allowed = Append(@, route.method),
                                      !.i = @ + 1]
                      ELSE [st EXCEPT !.methods = Append(@, route.method),
                                      !.pc = "matched"]
                 ELSE [st EXCEPT !.pc = "matched"]
            ELSE [st EXCEPT !.i = @ + 1]

LoopStep(c) ==
    /\ calls[c].pc = "loop"
    /\ calls' = [calls EXCEPT ![c] = Iterate(ThisRouter, @)]
    /\ UNCHANGED <<Routes, Handlers, op, log, fault, store, hist, ret,
                   heap, rrs, maps, inreq, seen>>

\* The call ends: the deferred function has run.
Returned(st, body) ==
    LET res == Recover(ThisRouter, body)
    IN [st EXCEPT !.pc = "done", !.log = res.log, !.fault = res.fault]

\* main.go:93-103: the CORS headers of a CORS-enabled route, then the
\* params, written into the call's map.
MatchedStep(c) ==
    /\ calls[c].pc = "matched"
    /\ LET st == calls[c]
           route == Routes[st.i]
           sent == IF route.CORS THEN CallCORS(Handlers, st.methods) ELSE Ran(<<>>)
       IN IF sent.panic # NoPanic
          THEN /\ calls' = [calls EXCEPT ![c] = Returned(st, sent)]
               /\ heap' = heap
          ELSE /\ heap' = [heap EXCEPT ![st.params] =
                              BuildParams(SubexpNames(route.regex),
                                          FindStringSubmatch(route.regex, st.r.path),
                                          0, heap[st.params])]
               /\ calls' = [calls EXCEPT ![c] = [st EXCEPT !.pc = "handler", !.log = sent.log]]
    /\ UNCHANGED <<Routes, Handlers, op, log, fault, store, hist, ret, rrs, maps, inreq, seen>>

\* main.go:106: the handler runs; what it reads through Params(r) is the
\* map of its request's context as it is now.
HandlerStep(c) ==
    /\ calls[c].pc = "handler"
    /\ LET st == calls[c]
           h == CallHandler(Routes[st.i], st.i, heap[st.params])
       IN calls' = [calls EXCEPT ![c] =
                       Returned(st, [log |-> st.log \o h.log, panic |-> h.panic])]
    /\ UNCHANGED <<Routes, Handlers, op, log, fault, store, hist, ret,
                   heap, rrs, maps, inreq, seen>>

\* main.go:111-122
AfterStep(c) ==
    /\ calls[c].pc = "after"
    /\ LET st == calls[c]
       IN calls' = [calls EXCEPT ![c] =
                       Returned(st, AfterLoop(ThisRouter, st.r, st.methods, st.allowed, <<>>))]
    /\ UNCHANGED <<Routes, Handlers, op, log, fault, store, hist, ret,
                   heap, rrs, maps, inreq, seen>>

\* The request completes; its map is garbage.
End(c) ==
    /\ calls[c].pc = "done"
    /\ heap' = [b \in DOMAIN heap \ {calls[c].params} |-> heap[b]]
    /\ calls' = [calls EXCEPT ![c] = IdleCall]
    /\ UNCHANGED <<Routes, Handlers, op, log, fault, store, hist, ret, rrs, maps, inreq, seen>>

(***************************************************************************)
(* Several routers (main.go).  New returns a pointer to a new RegRouter:   *)
(* rrs maps the routers made so far to their fields.  ErrorCodes is a Go   *)
(* map, a reference: the field holds the address of the map and maps gives *)
(* the contents of every map.  CORS and CTX are values of the struct.      *)
(***************************************************************************)
RouterIds == {"A", "B"}

EmptyStruct == "struct{}{}"

\* A key of the router's own.
PrivateCTX(a) == a

\* The CTX field of a new router: New does not set it, and the zero value
\* of struct{} is the only value of the type.
ZeroCTX(a) == EmptyStruct

\* One status-code map for all routers, as if it were a package variable.
AllocCodesShared(used) == 1

\* The map literal in New: a new map, at an address no map has.
AllocCodes(used) ==
    CHOOSE m \in 1..(Cardinality(used) + 1) :
        m \notin used /\ \A b \in 1..(m - 1) : b \in used

\* a := New()
NewRouter(a) ==
    /\ a \notin DOMAIN rrs
    /\ LET m == AllocCodes(DOMAIN maps)
       IN /\ maps' = [b \in DOMAIN maps \cup {m} |->
                         IF b = m THEN New.Handlers.ErrorCodes ELSE maps[b]]
          /\ rrs' = [b \in DOMAIN rrs \cup {a} |->
                        IF b = a
                        THEN [Routes |-> New.Routes,
                              CTX |-> ZeroCTX(a),
                              Handlers |-> [CORS |-> New.Handlers.CORS, ErrorCodes |-> m]]
                        ELSE rrs[b]]
    /\ op' = [name |-> "New", rr |-> a, r |-> NoRequest]
    /\ log' = <<>>
    /\ fault' = NoPanic
    /\ UNCHANGED <<Routes, Handlers, store, hist, ret, calls, heap, inreq, seen>>

\* Router a as the dispatch reads it: its routes and its bundle, the
\* status-code map looked up.
RR(a) ==
    [Routes |-> rrs[a].Routes,
     Handlers |-> [CORS |-> rrs[a].Handlers.CORS,
                   ErrorCodes |-> maps[rrs[a].Handlers.ErrorCodes]]]

\* a.Add(method, pattern, handler, cors), the pattern one that compiles.
AddOn(a, method, pattern, handler, cors) ==
    /\ a \in DOMAIN rrs
    /\ inreq = <<>>
    /\ Len(rrs[a].Routes) < MaxRoutes
    /\ CompileOK(Anchored(pattern))
    /\ rrs' = [rrs EXCEPT ![a].Routes = Append(@, NewRoute(method, pattern, handler, cors))]
    /\ op' = [name |-> "AddOn", rr |-> a, r |-> NoRequest]
    /\ log' = <<>>
    /\ fault' = NoPanic
    /\ UNCHANGED <<Routes, Handlers, store, hist, ret, calls, heap, maps, inreq, seen>>

\* a.Handlers.CORS = f
SetCORSOn(a, kind) ==
    /\ a \in DOMAIN rrs
    /\ rrs' = [rrs EXCEPT ![a].Handlers.CORS = kind]
    /\ op' = [name |-> "SetCORSOn", rr |-> a, r |-> NoRequest]
    /\ log' = <<>>
    /\ fault' = NoPanic
    /\ UNCHANGED <<Routes, Handlers, store, hist, ret, calls, heap, maps, inreq, seen>>

\* a.Handlers.ErrorCodes[code] = f
SetErrorCodeOn(a, code, kind) ==
    /\ a \in DOMAIN rrs
    /\ LET m == rrs[a].Handlers.ErrorCodes
       IN maps' = [maps EXCEPT ![m] =
                      [c \in DOMAIN maps[m] \cup {code} |->
                          IF c = code THEN kind ELSE maps[m][c]]]
    /\ op' = [name |-> "SetErrorCodeOn", rr |-> a, r |-> NoRequest]
    /\ log' = <<>>
    /\ fault' = NoPanic
    /\ UNCHANGED <<Routes, Handlers, store, hist, ret, calls, heap, rrs, inreq, seen>>

\* delete(a.Handlers.ErrorCodes, code)
DeleteErrorCodeOn(a, code) ==
    /\ a \in DOMAIN rrs
    /\ LET m == rrs[a].Handlers.ErrorCodes
       IN maps' = [maps EXCEPT ![m] = [c \in DOMAIN maps[m] \ {code} |-> maps[m][c]]]
    /\ op' = [name |-> "DeleteErrorCodeOn", rr |-> a, r |-> NoRequest]
    /\ log' = <<>>
    /\ fault' = NoPanic
    /\ UNCHANGED <<Routes, Handlers, store, hist, ret, calls, heap, rrs, inreq, seen>>

\* The HTTP server calls the closure of router a with request r.
ServeOn(a, r) ==
    /\ a \in DOMAIN rrs
    /\ LET res == ServeHTTP(RR(a), r)
       IN /\ log' = res.log
          /\ fault' = res.fault
    /\ op' = [name |-> "ServeOn", rr |-> a, r |-> r]
    /\ UNCHANGED <<Routes, Handlers, store, hist, ret, calls, heap, rrs, maps, inreq, seen>>

(***************************************************************************)
(* Request contexts (main.go:106, 142-144).  A context is the chain of the *)
(* bindings made with context.WithValue, the latest last; a Params value   *)
(* is held by the address of its map in heap.  inreq is the stack of the   *)
(* handlers that are running, the innermost last: a handler may call the   *)
(* closure of a router with the request it was given.                      *)
(***************************************************************************)
Nil == 0

\* r.Context() of a request that comes from the server.
Background == <<>>

\* context.WithValue(ctx, key, val)
WithValue(ctx, key, val) == Append(ctx, <<key, val>>)

\* ctx.Value(key): the latest binding of a key equal to key, or nil.
RECURSIVE Value(_, _)
Value(ctx, key) ==
    IF ctx = <<>> THEN Nil
    ELSE IF ctx[Len(ctx)][1] = key THEN ctx[Len(ctx)][2]
    ELSE Value(SubSeq(ctx, 1, Len(ctx) - 1), key)

\* x.Params(r); the type assertion panics on nil.
Params(x, r) ==
    LET v == Value(r.ctx, rrs[x].CTX)
    IN [params |-> v,
        panic |-> IF v = Nil THEN "interface conversion: interface is nil, not Params"
                  ELSE NoPanic]

\* The loop, from the state st of the locals until it is left.
RECURSIVE RunLoop(_, _)
RunLoop(rr, st) == IF st.pc = "loop" THEN RunLoop(rr, Iterate(rr, st)) ELSE st

Top == inreq[Len(inreq)]

\* The closure of router b is called with request r and runs until it
\* calls the route's handler (a new innermost handler) or returns.
Enter(b, r) ==
    /\ b \in DOMAIN rrs
    /\ LET a == AllocParams(DOMAIN heap)
           st == RunLoop(RR(b), [pc |-> "loop", r |-> r, i |-> 1, methods |-> <<>>,
                                 allowed |-> <<>>, params |-> a, log |-> <<>>,
                                 fault |-> NoPanic])
           route == RR(b).Routes[st.i]
           sent == IF route.CORS THEN CallCORS(RR(b).Handlers, st.methods) ELSE Ran(<<>>)
           params == BuildParams(SubexpNames(route.regex),
                                 FindStringSubmatch(route.regex, r.path), 0, NewParams)
           left == IF st.pc = "matched"
                   THEN Recover(RR(b), sent)
                   ELSE Recover(RR(b), AfterLoop(RR(b), r, st.methods, st.allowed, <<>>))
       IN IF st.pc = "matched" /\ sent.panic = NoPanic
          THEN /\ heap' = [c \in DOMAIN heap \cup {a} |-> IF c = a THEN params ELSE heap[c]]
               /\ inreq' = Append(inreq, [rr |-> b, i |-> st.i, params |-> a,
                                          r |-> [r EXCEPT !.ctx = WithValue(@, rrs[b].CTX, a)]])
               /\ log' = sent.log \o <<EvHandler(st.i, params)>>
               /\ fault' = NoPanic
          ELSE /\ log' = left.log
               /\ fault' = left.fault
               /\ UNCHANGED <<heap, inreq>>
    /\ op' = [name |-> "Enter", rr |-> b, r |-> r]
    /\ UNCHANGED <<Routes, Handlers, store, hist, ret, calls, rrs, maps, seen>>

\* The server calls the closure of router b.
ServeFresh(b, r) ==
    /\ inreq = <<>>
    /\ Enter(b, [method |-> r.method, path |-> r.path, ctx |-> Background])

\* The running handler calls the closure of router b with its request.
Forward(b) ==
    /\ inreq # <<>>
    /\ Len(inreq) < MaxDepth
    /\ Enter(b, Top.r)

\* The running handler calls x.Params(r) with its request; the panic of
\* the type assertion ends the handler and is recovered by the dispatch
\* that called it.
ReadParams(x) ==
    /\ inreq # <<>>
    /\ x \in DOMAIN rrs
    /\ LET p == Params(x, Top.r)
           left == Recover(RR(Top.rr), Panicked(<<>>, p.panic))
       IN /\ seen' = [rr |-> x, params |-> p.params, panic |-> p.panic]
          /\ IF p.panic = NoPanic
             THEN /\ log' = <<>>
                  /\ fault' = NoPanic
                  /\ UNCHANGED <<heap, inreq>>
             ELSE /\ log' = left.log
                  /\ fault' = left.fault
                  /\ inreq' = SubSeq(inreq, 1, Len(inreq) - 1)
                  /\ heap' = [c \in DOMAIN heap \ {Top.params} |-> heap[c]]
    /\ op' = [name |-> "Params", rr |-> x, r |-> Top.r]
    /\ UNCHANGED <<Routes, Handlers, store, hist, ret, calls, rrs, maps>>

\* The running handler writes its response and returns, and so does the
\* dispatch that called it.
Return ==
    /\ inreq # <<>>
    /\ inreq' = SubSeq(inreq, 1, Len(inreq) - 1)
    /\ heap' = [c \in DOMAIN heap \ {Top.params} |-> heap[c]]
    /\ log' = <<EvWrite(200)>>
    /\ fault' = NoPanic
    /\ op' = [name |-> "Return", rr |-> Top.rr, r |-> Top.r]
    /\ UNCHANGED <<Routes, Handlers, store, hist, ret, calls, rrs, maps, seen>>

(***************************************************************************)
(* Inputs.                                                                 *)
(***************************************************************************)
Slash == "/"

\* /a
PatA == Lits(<<Slash, "a">>)
\* /(?P<id>[a1]+)
PatId == <<Lit(Slash), Grp("id", {"a", "1"}, TRUE, FALSE)>>
\* /(?P<filepath>[a1]+)
PatFile == <<Lit(Slash), Grp("filepath", {"a", "1"}, TRUE, FALSE)>>
\* /(a
PatBad == <<Lit(Slash), Unclosed, Lit("a")>>
\* /users/(?P<id>[0-9]+)
PatUsers == Lits(<<Slash, "u", "s", "e", "r", "s", Slash>>)
            \o <<Grp("id", {"0", "1", "2", "3", "4", "5", "6", "7", "8", "9"}, TRUE, FALSE)>>
\* /(a)?(?P<1>1)?([a1]+)?
PatOpt == <<Lit(Slash), Grp("", {"a"}, FALSE, TRUE), Grp("1", {"1"}, FALSE, TRUE),
            Grp("", {"a", "1"}, TRUE, TRUE)>>
\* /(?P<0>a)([a1])
PatZero == <<Lit(Slash), Grp("0", {"a"}, FALSE, FALSE), Grp("", {"a", "1"}, FALSE, FALSE)>>

POST == <<"P", "O", "S", "T">>
DELETE == <<"D", "E", "L", "E", "T", "E">>

\* Spec: routing over overlapping patterns, methods in both cases, CORS or not.
AddMethods == {<<"g", "e", "t">>, POST}
AddPatterns == {PatA, PatId, PatBad}
StaticPatterns == {PatFile}
ReqMethods == {<<"g", "e", "t">>, POST, DELETE}
ReqPaths == {<<Slash, "a">>, <<Slash, "1">>, <<Slash, "b">>}
Requests == [method : ReqMethods, path : ReqPaths]

\* SpecFault: handlers that panic, and Static with and without filepath.
FaultMethods == {<<"g", "e", "t">>, GET}
FaultHandlers == {UserHandler("ok"), UserHandler("panic"), UserHandler("writepanic")}
FaultStaticPatterns == {PatFile, PatA}
FaultRequests == [method : {GET, DELETE}, path : {<<Slash, "a">>, <<Slash, "b">>}]

\* SpecCapture: patterns with several, optional and colliding groups.
CapturePatterns == {PatUsers, PatOpt, PatZero, PatId}
CapturePaths == {<<Slash, "u", "s", "e", "r", "s", Slash, "4", "2">>, <<Slash>>,
                 <<Slash, "a">>, <<Slash, "1">>, <<Slash, "a", "1">>, <<Slash, "a", "a">>,
                 <<Slash, "1", "a", "1">>}
CaptureRequests == [method : {GET}, path : CapturePaths]

\* SpecBundle: the caller replaces and removes entries of the bundle.
BundleHandlers == {UserHandler("ok"), UserHandler("panic")}
BundleRequests == [method : {GET, DELETE}, path : {<<Slash, "a">>, <<Slash, "b">>}]
HandlerKinds == {"default", "faulting"}

\* SpecOwnBundle: a CORS route brings the CORS writer into a dispatch, an
\* unmatched path the 404 handler, whose entry is set, replaced and deleted.
OwnCodes == {StatusNotFound}
OwnRequests == [method : {GET}, path : {<<Slash, "a">>, <<Slash, "b">>}]

\* SpecCtx: routes whose stores differ on one path, /(?P<id>[a1]+) and
\* /(?P<filepath>[a1]+).
CtxPatterns == {PatId, PatFile}
CtxRequests == [method : {GET}, path : {<<Slash, "1">>}]

\* SpecSteps: two requests in flight over routes that give them different
\* params, and CORS routes with another method.
StepPatterns == {PatA, PatId}
StepRequests == [method : {GET, DELETE}, path : {<<Slash, "a">>, <<Slash, "1">>}]

ParamKeys == {"id", "0"}
ParamValues == {<<>>, <<"4">>, <<"4", "2">>}

(***************************************************************************)
(* Specifications.                                                         *)
(***************************************************************************)
Init ==
    /\ Routes = New.Routes
    /\ Handlers = New.Handlers
    /\ op = [name |-> "New", r |-> NoRequest]
    /\ log = <<>>
    /\ fault = NoPanic
    /\ store = NewParams
    /\ hist = <<>>
    /\ ret = [res |-> <<>>, err |-> NoError, ok |-> TRUE]
    /\ calls = [c \in CallIds |-> IdleCall]
    /\ heap = <<>>
    /\ rrs = <<>>
    /\ maps = <<>>
    /\ inreq = <<>>
    /\ seen = <<>>

\* A router with the Handlers bundle of New: routes are registered and
\* requests dispatched.
AddAny ==
    \E m \in AddMethods, p \in AddPatterns, c \in BOOLEAN :
        Add(m, p, UserHandler("ok"), c)

StaticAny == \E p \in StaticPatterns : Static("www", p)

DispatchAny == \E r \in Requests : Dispatch(r)

Next == AddAny \/ StaticAny \/ DispatchAny

Spec == Init /\ [][Next]_vars

\* Route handlers that panic, and Static routes.
AddFault ==
    \E m \in FaultMethods, h \in FaultHandlers, c \in BOOLEAN : Add(m, PatA, h, c)

StaticFault == \E p \in FaultStaticPatterns : Static("www", p)

DispatchFault == \E r \in FaultRequests : Dispatch(r)

NextFault == AddFault \/ StaticFault \/ DispatchFault

SpecFault == Init /\ [][NextFault]_vars

\* Patterns with several, optional and colliding groups.
AddCapture == \E p \in CapturePatterns, c \in BOOLEAN : Add(GET, p, UserHandler("ok"), c)

DispatchCapture == \E r \in CaptureRequests : Dispatch(r)

NextCapture == AddCapture \/ DispatchCapture

SpecCapture == Init /\ [][NextCapture]_vars

\* A router whose Handlers bundle the caller changes.
AddBundle == \E h \in BundleHandlers, c \in BOOLEAN : Add(GET, PatA, h, c)

DispatchBundle == \E r \in BundleRequests : Dispatch(r)

SetCORSAny == \E k \in HandlerKinds : SetCORS(k)

SetErrorCodeAny == \E c \in DefaultCodes, k \in HandlerKinds : SetErrorCode(c, k)

DeleteErrorCodeAny == \E c \in DefaultCodes : DeleteErrorCode(c)

NextBundle ==
    AddBundle \/ DispatchBundle \/ SetCORSAny \/ SetErrorCodeAny \/ DeleteErrorCodeAny

SpecBundle == Init /\ [][NextBundle]_vars

\* Two slots of concurrent dispatches on one router.  Routes are registered
\* while no request is in flight.
AddQuiet ==
    /\ \A c \in CallIds : ~InFlight(c)
    /\ \E p \in StepPatterns, c \in BOOLEAN : Add(GET, p, UserHandler("ok"), c)

BeginAny == \E c \in CallIds, r \in StepRequests : Begin(c, r)

StepAny ==
    \E c \in CallIds : LoopStep(c) \/ MatchedStep(c) \/ HandlerStep(c) \/ AfterStep(c) \/ End(c)

NextSteps == AddQuiet \/ BeginAny \/ StepAny

SpecSteps == Init /\ [][NextSteps]_vars

\* Two routers, each with routes and a bundle that its owner changes.
NewAny == \E a \in RouterIds : NewRouter(a)

AddOwn == \E a \in RouterIds : AddOn(a, GET, PatA, UserHandler("panic"), TRUE)

SetCORSOwn == \E a \in RouterIds, k \in HandlerKinds : SetCORSOn(a, k)

SetErrorCodeOwn == \E a \in RouterIds, c \in OwnCodes, k \in HandlerKinds : SetErrorCodeOn(a, c, k)

DeleteErrorCodeOwn == \E a \in RouterIds, c \in OwnCodes : DeleteErrorCodeOn(a, c)

ServeOwn == \E a \in RouterIds, r \in OwnRequests : ServeOn(a, r)

NextOwnBundle ==
    NewAny \/ AddOwn \/ SetCORSOwn \/ SetErrorCodeOwn \/ DeleteErrorCodeOwn \/ ServeOwn

SpecOwnBundle == Init /\ [][NextOwnBundle]_vars

\* Two routers whose handlers read the params through either router and
\* hand their request on to either router.
AddCtx == \E a \in RouterIds, p \in CtxPatterns : AddOn(a, GET, p, UserHandler("ok"), FALSE)

ServeFreshAny == \E b \in RouterIds, r \in CtxRequests : ServeFresh(b, r)

ForwardAny == \E b \in RouterIds : Forward(b)

ReadParamsAny == \E x \in RouterIds : ReadParams(x)

NextCtx == NewAny \/ AddCtx \/ ServeFreshAny \/ ForwardAny \/ ReadParamsAny \/ Return

SpecCtx == Init /\ [][NextCtx]_vars

\* One Params value under Set, Get and GetE.
ParamsSetAny == \E k \in ParamKeys, v \in ParamValues : ParamsSet(k, v)

ParamsGetAny == \E k \in ParamKeys : ParamsGet(k)

ParamsGetEAny == \E k \in ParamKeys : ParamsGetE(k)

NextParams == ParamsSetAny \/ ParamsGetAny \/ ParamsGetEAny

SpecParams == Init /\ [][NextParams]_vars

(***************************************************************************)
(* Vocabulary of the properties.  They read the last call (op), what it    *)
(* did (log) and the panic that left it (fault).                           *)
(***************************************************************************)
Serving == op.name = "Dispatch"

RouteIds == 1..Len(Routes)

\* Route i's pattern matches the path of the request.
PathMatches(i) == Len(FindStringSubmatch(Routes[i].regex, op.r.path)) > 0

\* Route i's method is the request's, letter case aside.
SameMethod(i) == ToUpper(Routes[i].method) = ToUpper(op.r.method)

Count(P(_)) == Cardinality({k \in 1..Len(log) : P(log[k])})

HandlerCalls(i) == Count(LAMBDA e : e.ev = "handler" /\ e.route = i)
AnyHandlerCalls == Count(LAMBDA e : e.ev = "handler")
StatusCalls(code) == Count(LAMBDA e : e.ev = "status" /\ e.code = code)
CORSCalls == Count(LAMBDA e : e.ev = "cors")
Responses == Count(LAMBDA e : e.ev \in {"write", "serve"})

\* The methods of the routes of ids (a set of route numbers), in
\* registration order.
RECURSIVE MethodsOf(_, _)
MethodsOf(ids, i) ==
    IF i > Len(Routes) THEN <<>>
    ELSE (IF i \in ids THEN <<Routes[i].method>> ELSE <<>>) \o MethodsOf(ids, i + 1)

\* Route i is the first route matching the path, and has the request's method.
C1_FirstMatch(i) ==
    /\ PathMatches(i)
    /\ \A j \in 1..(i - 1) : ~PathMatches(j)
    /\ SameMethod(i)

(***************************************************************************)
(* C1.  A request whose path matches route i and no earlier route, and     *)
(* whose method is route i's up to letter case, has route i's handler      *)
(* called exactly once, no other route's handler, and neither the 404 nor  *)
(* the 405 handler.                                                        *)
(***************************************************************************)
C1_FirstMatchDispatched ==
    Serving =>
        \A i \in RouteIds :
            C1_FirstMatch(i) =>
                /\ HandlerCalls(i) = 1
                /\ \A j \in RouteIds \ {i} : HandlerCalls(j) = 0
                /\ StatusCalls(StatusNotFound) = 0
                /\ StatusCalls(StatusMethodNotAllowed) = 0

\* A CORS route registered second, reached past a route that does not match
\* the path, for a request that spells the method in another case.
C1_Witness ==
    /\ Serving
    /\ Len(Routes) = 2
    /\ C1_FirstMatch(2)
    /\ Routes[2].CORS
    /\ Routes[2].method # op.r.method
    /\ HandlerCalls(2) = 1

(***************************************************************************)
(* C2.  As claimed: when two routes both match the path, the handler of    *)
(* the later-registered one is never called.                               *)
(***************************************************************************)
C2_LaterNeverInvoked ==
    Serving =>
        \A i \in RouteIds : \A j \in RouteIds :
            (i < j /\ PathMatches(i) /\ PathMatches(j)) => HandlerCalls(j) = 0

\* A route is passed over when it does not match the path, or is
\* CORS-enabled with a method other than the request's.
C2_Eligible(i) == PathMatches(i) /\ (~Routes[i].CORS \/ SameMethod(i))

(***************************************************************************)
(* C2, amended.  Dispatch calls the handler of the first-registered route  *)
(* that matches the path and is not a CORS-enabled route with another      *)
(* method, once, and no other handler: a later matching route is called    *)
(* only when every earlier matching route is such a CORS route.            *)
(***************************************************************************)
C2_FirstEligibleOnly ==
    Serving =>
        \A j \in RouteIds :
            HandlerCalls(j) =
                IF C2_Eligible(j) /\ \A i \in 1..(j - 1) : ~C2_Eligible(i) THEN 1 ELSE 0

\* Two routes match the path; the first, a CORS route with another method,
\* is passed over and the second is called.
C2_Witness ==
    /\ Serving
    /\ Len(Routes) = 2
    /\ PathMatches(1) /\ PathMatches(2)
    /\ Routes[1].CORS /\ ~SameMethod(1)
    /\ HandlerCalls(2) = 1

\* Only non-CORS routes match the path, at least one, none with the
\* request's method.
C3_Case ==
    /\ Serving
    /\ \E i \in RouteIds : PathMatches(i) /\ ~Routes[i].CORS /\ ~SameMethod(i)
    /\ \A i \in RouteIds : PathMatches(i) => (~Routes[i].CORS /\ ~SameMethod(i))

(***************************************************************************)
(* C3.  A request whose path is matched by a non-CORS route with another   *)
(* method and by no CORS-enabled route (and, read in the claim's favour,   *)
(* by no route with the request's method) gets the 405 handler, called     *)
(* once with the methods of the matching routes joined by ", " under       *)
(* `allowed`, and no route handler.                                        *)
(***************************************************************************)
C3_MethodNotAllowed ==
    C3_Case =>
        /\ AnyHandlerCalls = 0
        /\ StatusCalls(StatusMethodNotAllowed) = 1
        /\ \A k \in 1..Len(log) :
               (log[k].ev = "status" /\ log[k].code = StatusMethodNotAllowed) =>
                   log[k].data["allowed"] =
                       Join(MethodsOf({i \in RouteIds : PathMatches(i)}, 1), CommaSpace)

\* A CORS-enabled route matches the path; no matching route has the
\* request's method.
C4_Case ==
    /\ Serving
    /\ \E i \in RouteIds : PathMatches(i) /\ Routes[i].CORS
    /\ \A i \in RouteIds : PathMatches(i) => ~SameMethod(i)

(***************************************************************************)
(* C4.  A request whose path is matched by a CORS-enabled route and by no  *)
(* route with the request's method has no route handler called, the CORS   *)
(* writer called with the methods of the matching CORS-enabled routes in   *)
(* registration order, and status 204 written.                             *)
(***************************************************************************)
C4_Preflight ==
    C4_Case =>
        /\ AnyHandlerCalls = 0
        /\ CORSCalls = 1
        /\ \A k \in 1..Len(log) :
               log[k].ev = "cors" =>
                   log[k].methods =
                       MethodsOf({i \in RouteIds : PathMatches(i) /\ Routes[i].CORS}, 1)
        /\ \E k \in 1..Len(log) : log[k].ev = "write" /\ log[k].code = StatusNoContent

(***************************************************************************)
(* C5.  A request whose path no route matches (the route list may be       *)
(* empty) has the 404 handler called once, with an empty payload, and no   *)
(* route handler, CORS writer or 405 handler.                              *)
(***************************************************************************)
C5_NotFound ==
    (Serving /\ \A i \in RouteIds : ~PathMatches(i)) =>
        /\ StatusCalls(StatusNotFound) = 1
        /\ \A k \in 1..Len(log) : log[k].ev = "status" => log[k].data = EmptyData
        /\ AnyHandlerCalls = 0
        /\ CORSCalls = 0
        /\ StatusCalls(StatusMethodNotAllowed) = 0

C5_Witness ==
    /\ Serving
    /\ Len(Routes) = 2
    /\ \A i \in RouteIds : ~PathMatches(i)
    /\ StatusCalls(StatusNotFound) = 1

\* A route handler that panics was called.
C6_HandlerPanicked ==
    /\ Serving
    /\ \E k \in 1..Len(log) :
           /\ log[k].ev = "handler"
           /\ Routes[log[k].route].handler.kind \in {"panic", "writepanic"}

(***************************************************************************)
(* C6.  When the handler of the matched route panics, before or after it   *)
(* has written to the response, the request gets exactly one response,     *)
(* the 500 written by the 500 handler called once with the panic value     *)
(* under `exception`, and nothing else is written.                         *)
(***************************************************************************)
C6_OneResponseOnPanic ==
    C6_HandlerPanicked =>
        /\ StatusCalls(StatusInternalServerError) = 1
        /\ \A k \in 1..Len(log) :
               log[k].ev = "status" => log[k].data = [x \in {"exception"} |-> "handler panic"]
        /\ Responses = 1
        /\ \A k \in 1..Len(log) :
               log[k].ev = "write" => log[k].code = StatusInternalServerError

(***************************************************************************)
(* C7.  As claimed: whatever the caller has made of the Handlers bundle,   *)
(* no panic leaves the dispatch.                                           *)
(***************************************************************************)
C7_NeverPropagates == Serving => fault = NoPanic

\* The 500 entry is present and is a function that returns.
C7_Has500 ==
    /\ StatusInternalServerError \in DOMAIN Handlers.ErrorCodes
    /\ Handlers.ErrorCodes[StatusInternalServerError] = "default"

\* The body of the dispatch panicked: in a route handler, in the CORS
\* writer, in a status handler other than 500, or on the missing 404 entry.
C7_BodyPanicked ==
    \/ \E k \in 1..Len(log) :
           \/ log[k].ev = "handler" /\ Routes[log[k].route].handler.kind = "panic"
           \/ log[k].ev = "cors" /\ Handlers.CORS # "default"
           \/ /\ log[k].ev = "status"
              /\ log[k].code # StatusInternalServerError
              /\ Handlers.ErrorCodes[log[k].code] # "default"
    \/ /\ \A i \in RouteIds : ~PathMatches(i)
       /\ StatusNotFound \notin DOMAIN Handlers.ErrorCodes

(***************************************************************************)
(* C7, amended.  While the bundle's 500 entry is present and does not      *)
(* itself panic, no panic leaves the dispatch, whatever the other entries  *)
(* and the CORS writer are: a panic of the body is handed to the 500       *)
(* handler, once.  With the 500 entry removed or panicking, a panic of     *)
(* the body does leave the dispatch.                                       *)
(***************************************************************************)
C7_RecoveredWith500 ==
    Serving =>
        /\ C7_Has500 => (fault = NoPanic /\ StatusCalls(StatusInternalServerError) <= 1)
        /\ (~C7_Has500 /\ C7_BodyPanicked) => fault # NoPanic

\* The 404 entry is gone, the path matches nothing: the nil call panics and
\* the panic is answered by the 500 handler.
C7_Witness ==
    /\ Serving
    /\ C7_Has500
    /\ StatusNotFound \notin DOMAIN Handlers.ErrorCodes
    /\ \A i \in RouteIds : ~PathMatches(i)
    /\ StatusCalls(StatusInternalServerError) = 1
    /\ fault = NoPanic

(***************************************************************************)
(* C8.  Every dispatched request gets exactly one response, whichever      *)
(* branch is taken.                                                        *)
(***************************************************************************)
C8_ExactlyOneResponse == Serving => Responses = 1

\* What the store must hold for the route of handler event e and the path
\* of the request, stated per group rather than by the loop that builds it.
C9_KeyOf(names, i) == IF names[i + 1] = "" THEN Digit[i + 1] ELSE names[i + 1]

C9_Expected(e, params) ==
    LET re == Routes[e.route].regex
        names == SubexpNames(re)
        matches == FindStringSubmatch(re, op.r.path)
        groups == 0..(Len(names) - 1)
    IN /\ DOMAIN params = {C9_KeyOf(names, i) : i \in groups}
       /\ \A i \in groups :
              (\A j \in groups : j > i => C9_KeyOf(names, j) # C9_KeyOf(names, i)) =>
                  params[C9_KeyOf(names, i)] = matches[i + 1]

Users42 == <<Slash, "u", "s", "e", "r", "s", Slash, "4", "2">>

C9_Example(e) ==
    (Routes[e.route].regex = Compile(Anchored(PatUsers)) /\ op.r.path = Users42) =>
        e.params = [k \in {"id", "0"} |-> IF k = "id" THEN <<"4", "2">> ELSE Users42]

(***************************************************************************)
(* C9.  The store a route handler receives has exactly the keys of the     *)
(* route's capture groups, group 0 included: the group's name, or its      *)
(* decimal index when it has none; the value of a key is the text of the   *)
(* last group with that key (empty for a group that did not participate).  *)
(* /users/(?P<id>[0-9]+) on /users/42 gives id -> 42 and 0 -> /users/42.   *)
(***************************************************************************)
C9_ParamsFromGroups ==
    Serving =>
        \A k \in 1..Len(log) :
            log[k].ev = "handler" => (C9_Expected(log[k], log[k].params) /\ C9_Example(log[k]))

\* /(a)?(?P<1>1)?([a1]+)? on /a: group 1 is "a" under key 1, then the named
\* group 1 did not participate and overwrites it with the empty string.
C9_Witness ==
    /\ Serving
    /\ \E k \in 1..Len(log) :
           /\ log[k].ev = "handler"
           /\ Routes[log[k].route].regex = Compile(Anchored(PatOpt))
           /\ op.r.path = <<Slash, "a">>
           /\ log[k].params = [x \in {"0", "1", "3"} |->
                                  IF x = "0" THEN <<Slash, "a">> ELSE <<>>]

\* The Set calls made so far, by key.
C10_WasSet(key) == \E n \in 1..Len(hist) : hist[n][1] = key

C10_LastSet(key) ==
    hist[CHOOSE n \in 1..Len(hist) :
             hist[n][1] = key /\ \A m \in (n + 1)..Len(hist) : hist[m][1] # key][2]

(***************************************************************************)
(* C10.  On a store that Set calls have built: Set returns true; Get of a  *)
(* key returns the value of the last Set of that key, the empty string if  *)
(* there was none; GetE returns that value and no error, or an error that  *)
(* names the key if there was none; the store holds, for every key, the    *)
(* value of the key's last Set and nothing else, so Set leaves other keys  *)
(* alone and Get and GetE leave the store alone.                           *)
(***************************************************************************)
C10_SetGet ==
    /\ DOMAIN store = {hist[n][1] : n \in 1..Len(hist)}
    /\ \A key \in DOMAIN store : store[key] = C10_LastSet(key)
    /\ op.name = "Set" => ret.ok
    /\ op.name = "Get" =>
           ret.res = IF C10_WasSet(op.key) THEN C10_LastSet(op.key) ELSE <<>>
    /\ op.name = "GetE" =>
           IF C10_WasSet(op.key)
           THEN ret.res = C10_LastSet(op.key) /\ ret.err = NoError
           ELSE /\ ret.err # NoError
                /\ \E n \in 1..Len(ret.err) : ret.err[n] = op.key

\* A key set twice, to different values, with another key set in between,
\* is read back.
C10_Witness ==
    /\ op.name = "GetE"
    /\ Len(hist) = 3
    /\ hist[1][1] = op.key /\ hist[2][1] # op.key /\ hist[3][1] = op.key
    /\ hist[1][2] # hist[3][2]
    /\ ret.res = hist[3][2]

(***************************************************************************)
(* C13.  A route handler is called only for a request whose method is the  *)
(* route's, letter case aside: a route that matches the path with another  *)
(* method is passed over, CORS-enabled or not, and its method is reported  *)
(* (a route of Static serves GET requests only).                           *)
(***************************************************************************)
C13_OnlyOwnMethod ==
    Serving => \A i \in RouteIds : HandlerCalls(i) > 0 => SameMethod(i)

\* Position k of the log is the call of a CORS-enabled route's handler.
C14_CORSDispatch(k) == log[k].ev = "handler" /\ Routes[log[k].route].CORS

(***************************************************************************)
(* C14.  When a CORS-enabled route matching path and method is dispatched, *)
(* the CORS writer is called exactly once, before the route's handler,     *)
(* which still runs; the methods it gets are those of the CORS-enabled     *)
(* routes matching the path registered at or before the dispatched route.  *)
(***************************************************************************)
C14_CORSBeforeHandler ==
    Serving =>
        \A k \in 1..Len(log) :
            C14_CORSDispatch(k) =>
                /\ CORSCalls = 1
                /\ \E c \in 1..(k - 1) :
                       /\ log[c].ev = "cors"
                       /\ log[c].methods =
                              MethodsOf({j \in 1..log[k].route :
                                            PathMatches(j) /\ Routes[j].CORS}, 1)
                /\ HandlerCalls(log[k].route) = 1

\* Two CORS routes match the path: the first, with another method, was
\* passed over and the second is dispatched with both methods reported.
C14_Witness ==
    /\ Serving
    /\ Len(Routes) = 2
    /\ \A j \in RouteIds : PathMatches(j) /\ Routes[j].CORS
    /\ \E k \in 1..Len(log) : C14_CORSDispatch(k) /\ log[k].route = 2
    /\ \E c \in 1..Len(log) : log[c].ev = "cors" /\ Len(log[c].methods) = 2

(***************************************************************************)
(* C15.  An Add whose pattern does not compile panics and adds nothing:    *)
(* the route list (and the Handlers bundle, so every later dispatch) is    *)
(* what it was before the call.                                            *)
(***************************************************************************)
C15_FailedAddAddsNothing ==
    [][(op'.name = "Add" /\ ~CompileOK(Anchored(op'.pattern))) =>
           (fault' # NoPanic /\ Routes' = Routes /\ Handlers' = Handlers)]_vars

\* A failed Add on a router that already has a route.
C15_Witness ==
    /\ op.name = "Add"
    /\ ~CompileOK(Anchored(op.pattern))
    /\ fault # NoPanic
    /\ Len(Routes) = 1

(***************************************************************************)
(* C16.  The route list is append-only: an Add that returns appends one    *)
(* route, with the method in upper case and the CORS flag as given (GET    *)
(* and non-CORS for Static), and leaves the earlier routes as they were;   *)
(* a dispatch, whatever its outcome, leaves the route list and the         *)
(* Handlers bundle unchanged.                                              *)
(***************************************************************************)
C16_AppendOnly ==
    [][/\ (op'.name = "Add" /\ fault' = NoPanic) =>
              /\ Len(Routes') = Len(Routes) + 1
              /\ \A i \in 1..Len(Routes) : Routes'[i] = Routes[i]
              /\ Routes'[Len(Routes')].method = ToUpper(op'.method)
              /\ Routes'[Len(Routes')].CORS = op'.cors
              /\ Routes'[Len(Routes')].handler = op'.handler
              /\ op'.handler.kind = "static" =>
                     (Routes'[Len(Routes')].method = GET /\ ~Routes'[Len(Routes')].CORS)
       /\ op'.name = "Dispatch" => (Routes' = Routes /\ Handlers' = Handlers)]_vars

\* A second route, given in lower case, has been appended in upper case.
C16_Witness ==
    /\ op.name = "Add"
    /\ fault = NoPanic
    /\ Len(Routes) = 2
    /\ op.method # Routes[2].method
    /\ Routes[2].method = GET

\* The text of the group named filepath in route i's match of the path.
C17_HasFilepath(i) ==
    \E g \in 1..Len(SubexpNames(Routes[i].regex)) :
        SubexpNames(Routes[i].regex)[g] = "filepath"

C17_Filepath(i) ==
    LET names == SubexpNames(Routes[i].regex)
        g == CHOOSE g \in 1..Len(names) : names[g] = "filepath"
    IN FindStringSubmatch(Routes[i].regex, op.r.path)[g]

(***************************************************************************)
(* C17.  When a route of Static is dispatched and its pattern has no group *)
(* named filepath, the closure does nothing: the file server is not        *)
(* called, no status handler is called and nothing is written.  When the   *)
(* group is there, the file server is called exactly once, for the path    *)
(* "/" followed by the captured text.                                      *)
(***************************************************************************)
C17_StaticFilepath ==
    Serving =>
        \A k \in 1..Len(log) :
            (log[k].ev = "handler" /\ Routes[log[k].route].handler.kind = "static") =>
                IF C17_HasFilepath(log[k].route)
                THEN /\ Count(LAMBDA e : e.ev = "serve") = 1
                     /\ \A n \in 1..Len(log) :
                            log[n].ev = "serve" =>
                                /\ log[n].text = <<Slash>> \o C17_Filepath(log[k].route)
                                /\ log[n].key = Routes[log[k].route].handler.dir
                ELSE /\ Count(LAMBDA e : e.ev \in {"serve", "status", "write"}) = 0
                     /\ fault = NoPanic

\* A Static route on /a, without filepath, has taken a GET /a and done nothing.
C17_Witness ==
    /\ Serving
    /\ \E k \in 1..Len(log) :
           /\ log[k].ev = "handler"
           /\ Routes[log[k].route].handler.kind = "static"
           /\ ~C17_HasFilepath(log[k].route)
    /\ Responses = 0

\* The store of in-flight call c, and what the groups of its route give for
\* its own request, stated per group.
C11_Store(c) == heap[calls[c].params]

C11_Own(c, params) ==
    LET re == Routes[calls[c].i].regex
        names == SubexpNames(re)
        matches == FindStringSubmatch(re, calls[c].r.path)
        groups == 0..(Len(names) - 1)
    IN /\ DOMAIN params = {C9_KeyOf(names, i) : i \in groups}
       /\ \A i \in groups :
              (\A j \in groups : j > i => C9_KeyOf(names, j) # C9_KeyOf(names, i)) =>
                  params[C9_KeyOf(names, i)] = matches[i + 1]

C11_OwnStores ==
    \A c \in CallIds : InFlight(c) =>
        /\ calls[c].params \in DOMAIN heap
        /\ \A d \in CallIds \ {c} : InFlight(d) => calls[d].params # calls[c].params
        /\ calls[c].pc \in {"loop", "matched", "after"} => C11_Store(c) = NewParams
        /\ calls[c].pc = "handler" => C11_Own(c, C11_Store(c))
        /\ \A k \in 1..Len(calls[c].log) :
               calls[c].log[k].ev = "handler" => C11_Own(c, calls[c].log[k].params)

C11_WrittenByOwner ==
    \A a \in DOMAIN heap \cap DOMAIN heap' : heap'[a] # heap[a] =>
        \E c \in CallIds : /\ calls[c].params = a
                           /\ calls[c].pc = "matched"
                           /\ calls'[c].pc = "handler"
                           /\ \A d \in CallIds \ {c} : calls'[d] = calls[d]

(***************************************************************************)
(* C11.  Under any interleaving of dispatches on one router, every         *)
(* in-flight request has a store of its own: no two in-flight requests     *)
(* hold the same store, the store is empty from the start of the dispatch  *)
(* until its route is matched, only the dispatch that holds a store writes *)
(* to it, and what a handler reads is exactly the params of its own route  *)
(* and request.                                                            *)
(***************************************************************************)
C11_StorePerRequest == []C11_OwnStores /\ [][C11_WrittenByOwner]_vars

\* Two handlers running at once, each over the params of its own request,
\* on different paths.
C11_Witness ==
    /\ calls["x"].pc = "handler"
    /\ calls["y"].pc = "handler"
    /\ calls["x"].r.path = <<Slash, "1">>
    /\ calls["y"].r.path = <<Slash, "a">>
    /\ C11_Store("x") # C11_Store("y")
    /\ "id" \in DOMAIN C11_Store("x")
    /\ "id" \notin DOMAIN C11_Store("y")

\* The 405 handler was called in call c.
C18_Called405(c) ==
    \E k \in 1..Len(calls[c].log) :
        calls[c].log[k].ev = "status" /\ calls[c].log[k].code = StatusMethodNotAllowed

RECURSIVE C18_Subseq(_, _)
C18_Subseq(s, t) ==
    IF s = <<>> THEN TRUE
    ELSE IF t = <<>> THEN FALSE
    ELSE IF Head(s) = Head(t) THEN C18_Subseq(Tail(s), Tail(t))
    ELSE C18_Subseq(s, Tail(t))

(***************************************************************************)
(* C18.  At every point of every dispatch, allowed is a subsequence of     *)
(* methods, so allowed is empty whenever methods is; the branch that       *)
(* answers 405 needs methods empty and allowed non-empty, and so the 405   *)
(* handler is never called by a dispatch.                                  *)
(***************************************************************************)
C18_AllowedWithinMethods ==
    \A c \in CallIds : InFlight(c) =>
        /\ C18_Subseq(calls[c].allowed, calls[c].methods)
        /\ Len(calls[c].allowed) > 0 => Len(calls[c].methods) > 0
        /\ ~C18_Called405(c)

\* A dispatch that ended after the loop with a method in allowed: a CORS
\* route matched the path under another method, and the answer was 204.
C18_Witness ==
    \E c \in CallIds :
        /\ calls[c].pc = "done"
        /\ Len(calls[c].allowed) > 0
        /\ calls[c].i > Len(Routes)
        /\ \E k \in 1..Len(calls[c].log) :
               calls[c].log[k].ev = "write" /\ calls[c].log[k].code = StatusNoContent

C12_Mutation == op'.name \in {"SetCORSOn", "SetErrorCodeOn", "DeleteErrorCodeOn"}

\* Router b as the dispatch reads it after the step.
C12_After(b) ==
    [Routes |-> rrs'[b].Routes,
     Handlers |-> [CORS |-> rrs'[b].Handlers.CORS,
                   ErrorCodes |-> maps'[rrs'[b].Handlers.ErrorCodes]]]

\* The bundle of every router but the one changed, and what that router
\* answers to every request, are after the step what they were before.
C12_OthersUnchanged ==
    \A b \in DOMAIN rrs \ {op'.rr} :
        /\ C12_After(b).Handlers = RR(b).Handlers
        /\ \A r \in OwnRequests : ServeHTTP(C12_After(b), r) = ServeHTTP(RR(b), r)

C12_OwnMaps ==
    \A a \in DOMAIN rrs :
        /\ rrs[a].Handlers.ErrorCodes \in DOMAIN maps
        /\ \A b \in DOMAIN rrs \ {a} :
               rrs[b].Handlers.ErrorCodes # rrs[a].Handlers.ErrorCodes

(***************************************************************************)
(* C12.  Every router made by New has a Handlers bundle of its own: no two *)
(* routers hold the same status-code map, and setting, replacing or        *)
(* deleting an entry of one router's map, or replacing its CORS writer,    *)
(* leaves the bundle of every other router, and the outcome of every       *)
(* dispatch on it, as they were.                                           *)
(***************************************************************************)
C12_OwnBundle == []C12_OwnMaps /\ [][C12_Mutation => C12_OthersUnchanged]_vars

\* Two routers with the same routes; A's status-code map has just been
\* changed, B still has the bundle of New, and a request gets different
\* answers from the two.
C12_Witness ==
    /\ op.name \in {"SetErrorCodeOn", "DeleteErrorCodeOn"}
    /\ op.rr = "A"
    /\ DOMAIN rrs = RouterIds
    /\ rrs["A"].Routes = rrs["B"].Routes
    /\ Len(rrs["B"].Routes) > 0
    /\ RR("B").Handlers = New.Handlers
    /\ RR("A").Handlers # New.Handlers
    /\ \E r \in OwnRequests : ServeHTTP(RR("A"), r) # ServeHTTP(RR("B"), r)

\* What the groups of the route of running handler f give for its request,
\* stated per group.
C19_Own(f, params) ==
    LET re == rrs[f.rr].Routes[f.i].regex
        names == SubexpNames(re)
        matches == FindStringSubmatch(re, f.r.path)
        groups == 0..(Len(names) - 1)
    IN /\ DOMAIN params = {C9_KeyOf(names, i) : i \in groups}
       /\ \A i \in groups :
              (\A j \in groups : j > i => C9_KeyOf(names, j) # C9_KeyOf(names, i)) =>
                  params[C9_KeyOf(names, i)] = matches[i + 1]

(***************************************************************************)
(* C19.  The key under which the store is attached is not private to a     *)
(* router: all routers made by New have equal keys.  So for the request of *)
(* a running handler, Params on any router returns the store that the      *)
(* router which dispatched to that handler populated; when the request was *)
(* handed on by a handler of another dispatch, that store, and not the one *)
(* of the outer dispatch, is what either router returns.                   *)
(***************************************************************************)
C19_SharedKey ==
    /\ \A a \in DOMAIN rrs : \A b \in DOMAIN rrs : rrs[a].CTX = rrs[b].CTX
    /\ \A k \in 1..Len(inreq) :
           /\ C19_Own(inreq[k], heap[inreq[k].params])
           /\ \A x \in DOMAIN rrs :
                  /\ Params(x, inreq[k].r).panic = NoPanic
                  /\ Params(x, inreq[k].r).params = inreq[k].params
           /\ \A j \in 1..(k - 1) : inreq[j].params # inreq[k].params
    /\ (op.name = "Params" /\ inreq # <<>>) =>
           (seen.panic = NoPanic /\ seen.params = Top.params)

\* A handler of A handed its request to B; B's handler has just called
\* A.Params(r) and got the store B populated, which differs from A's.
C19_Witness ==
    /\ Len(inreq) = 2
    /\ inreq[1].rr = "A"
    /\ inreq[2].rr = "B"
    /\ op.name = "Params"
    /\ op.rr = "A"
    /\ seen.params = inreq[2].params
    /\ "filepath" \in DOMAIN heap[seen.params]
    /\ "id" \in DOMAIN heap[inreq[1].params]
    /\ heap[inreq[1].params] # heap[inreq[2].params]

====
